---- MODULE Spec2Model ----
(***************************************************************************)
(* Renpho sensor platform (custom_components/renpho/sensor.py): sensor     *)
(* views over a shared update coordinator.                                 *)
(*                                                                         *)
(* Numbers are carried as integers in thousandths (70.005 is 70005).  A    *)
(* Python value that may be None is a sequence: << >> is None, <<n>> is n. *)
(* The coordinator (module .coordinator) is not part of sensor.py; it is   *)
(* modelled from its description in spec.md sections 3 to 7.               *)
(***************************************************************************)
EXTENDS Integers, Sequences, FiniteSets, TLC

\* ------------------------------------------------------------------ bounds
MaxFetches == 3     \* upstream fetch calls explored per behaviour
MaxClock == 1       \* wall-clock readings are drawn from 0..MaxClock

\* --------------------------------------------------------------- constants
MASS_KILOGRAMS == "kg"
MASS_POUNDS == "lb"
\* 2.2046226218 as 22046226218 / 10^10, in base-10^4 limbs (most significant first)
KG_TO_LBS == <<220, 4622, 6218>>

None == << >>
Some(x) == <<x>>

Views == {"v1", "v2"}
Keys == {"weight", "bodyfat"}
AllKeys == Keys \cup {"unknown"}
FailureKinds == {"ConnectionError", "TimeoutError", "Exception"}
Times == 0..MaxClock
Units == {MASS_KILOGRAMS, MASS_POUNDS, "%", "None"}
Prefs == {MASS_KILOGRAMS, MASS_POUNDS}

\* the metric a view projects (its descriptor's id / metric)
MetricOf(v) == IF v = "v1" THEN "weight" ELSE "bodyfat"

\* the descriptors of sensor_configurations used by the coordinator behaviours
SensorUnits == [v \in Views |-> IF v = "v1" THEN MASS_KILOGRAMS ELSE "%"]

\* values the upstream may report, per key (thousandths)
ValuesOf(k) == IF k = "weight" THEN {70000, 70005} ELSE {20500}
FetchResults ==
  UNION {{[k \in D |-> IF k = "weight" THEN w ELSE b] :
            w \in ValuesOf("weight"), b \in ValuesOf("bodyfat")} : D \in SUBSET Keys}
\* values and descriptors used when the unit rule is exercised on its own
UnitValues == {125, 375, 1005, 20500, 70000, 70004, 70005, 70006, 70015, 150000}

\* ------------------------------------------------- Python float arithmetic
\* 2^k mod 1000
RECURSIVE Pow2Mod(_)
Pow2Mod(k) == IF k = 0 THEN 1 ELSE (2 * Pow2Mod(k - 1)) % 1000

\* e with 2^e <= n/1000 < 2^(e+1), for n >= 1
RECURSIVE Log2Up(_, _)
Log2Up(n, e) == IF n >= 2000 THEN Log2Up(n \div 2, e + 1) ELSE e
RECURSIVE Log2Down(_, _)
Log2Down(n, e) == IF n < 1000 THEN Log2Down(2 * n, e - 1) ELSE e
Exponent(n) == IF n >= 1000 THEN Log2Up(n, 0) ELSE Log2Down(n, 0)

\* The double nearest n/1000 is m / 2^k with k = 52 - Exponent(n) and
\* m = n * 2^k / 1000 rounded to nearest; the remainder of n * 2^k by 1000
\* says on which side of n/1000 that double lies: -1 below, 0 exact, 1 above.
DoubleSide(n) ==
  LET r == ((n % 1000) * Pow2Mod(52 - Exponent(n))) % 1000
  IN  IF r = 0 THEN 0 ELSE IF r < 500 THEN 0 - 1 ELSE 1

\* variant: the decimal value rounded half up
round2_half_up(n) == 10 * ((n + 5) \div 10)

\* round(x, 2) of the double x nearest n/1000: correctly rounded from the exact
\* value of x, an exact half-way case going to the even neighbour.
round2(n) ==
  LET q == n \div 10
  IN  IF n = 0 THEN 0
      ELSE IF n % 10 < 5 THEN 10 * q
      ELSE IF n % 10 > 5 THEN 10 * (q + 1)
      ELSE IF DoubleSide(n) > 0 THEN 10 * (q + 1)
      ELSE IF DoubleSide(n) < 0 THEN 10 * q
      ELSE IF q % 2 = 1 THEN 10 * (q + 1) ELSE 10 * q

\* round(metric_value * KG_TO_LBS, 2): the product n * 22046226218 in units of
\* 10^-13, as limbs to stay inside 32 bits, rounded to hundredths.  For n below
\* 5^10 * 2^8 the product is no half-way point and lies at least 10^-13 from
\* one, more than the error of the double product for the masses modelled.
round2_lbs(n) ==
  LET c  == KG_TO_LBS[3] * n
      b  == (KG_TO_LBS[2] * n) + (c \div 10000)
      a  == (KG_TO_LBS[1] * n) + (b \div 10000)
      lo == ((b % 10000) * 10000) + (c % 10000)
      q  == a \div 1000
      r  == a % 1000
  IN  IF r > 500 \/ (r = 500 /\ lo > 0) \/ (r = 500 /\ lo = 0 /\ q % 2 = 1)
      THEN 10 * (q + 1) ELSE 10 * q

\* ------------------------------------------------------ unit reconciliation
\* truth value of a Python string
Truthy(s) == s # ""

unit_of_measurement(pref, native) ==
  IF pref = MASS_POUNDS /\ native = MASS_KILOGRAMS THEN MASS_POUNDS
  ELSE IF pref = MASS_KILOGRAMS /\ native = MASS_KILOGRAMS THEN MASS_KILOGRAMS
  ELSE IF pref = MASS_POUNDS /\ native = MASS_POUNDS THEN MASS_POUNDS
  ELSE IF \/ pref = MASS_KILOGRAMS
          \/ (Truthy(MASS_POUNDS) /\ native # MASS_KILOGRAMS)
          \/ Truthy(MASS_POUNDS)
       THEN native
  ELSE "None"

\* variant: kilograms converted whatever the preference
state_value_pounds_always(pref, native, n) ==
  IF native = MASS_KILOGRAMS THEN round2_lbs(n) ELSE n

\* the value the state getter stores for a metric value that is not None
state_value(pref, native, n) ==
  IF pref = MASS_POUNDS /\ native = MASS_KILOGRAMS THEN round2_lbs(n)
  ELSE IF pref = MASS_KILOGRAMS /\ native = MASS_KILOGRAMS THEN round2(n)
  ELSE n

\* ------------------------------------------------------------------- state
VARIABLES
  \* coordinator
  data,                  \* the cache: metric key -> value, for the keys fetched
  last_update_success,
  last_fetched,          \* what the last successful upstream call returned
  in_flight,             \* upstream fetch calls in flight
  fetch_count,           \* upstream fetch calls issued so far
  waiting,               \* views awaiting the refresh in flight
  listeners,             \* views subscribed to update notifications
  \* sensor views
  view_phase,            \* "none", "constructed", "added" or "removed"
  on_remove,             \* whether the view registered its unsubscribe handle
  _unit,                 \* native unit of the descriptor
  _unit_of_measurement,  \* display preference, shared by all views
  _state,
  _timestamp,            \* << >> while the attribute has not been assigned
  metric_value,          \* what the last completed lookup of the view returned
  \* what the step just taken put out
  notified,              \* per view, the update notifications it was sent
  observed,              \* per view, the cache state its refresh request resumed with
  log,                   \* severity the state getter logged, "" for none
  raised                 \* faults that left the handler: <<handler, kind>>

cacheVars == <<data, last_update_success, last_fetched>>
fetchVars == <<in_flight, fetch_count, waiting>>
subVars == <<listeners, view_phase, on_remove>>
cfgVars == <<_unit, _unit_of_measurement>>
readVars == <<_state, _timestamp, metric_value>>
outVars == <<notified, observed, log, raised>>
vars == <<cacheVars, fetchVars, subVars, cfgVars, readVars, outVars>>

NoData == [k \in {} |-> 0]
Unset == << >>
Succeeded(r) == [ok |-> TRUE, result |-> r, kind |-> ""]
Failed(k) == [ok |-> FALSE, result |-> NoData, kind |-> k]
Outcomes == {Succeeded(r) : r \in FetchResults} \cup {Failed(k) : k \in FailureKinds}

Alive(v) == view_phase[v] \in {"constructed", "added"}

\* a step that notifies nobody, resumes nobody, logs nothing, raises nothing
Silent ==
  /\ notified' = [v \in Views |-> 0]
  /\ observed' = [v \in Views |-> None]
  /\ log' = ""
  /\ raised' = {}

\* ------------------------------------------------------------- coordinator
get_metric(key) == IF key \in DOMAIN data THEN Some(data[key]) ELSE None

\* variant: the result merged into the cache, key by key
swap_cache_merging(o) ==
  IF o.ok
  THEN [k \in DOMAIN o.result \cup DOMAIN data |->
          IF k \in DOMAIN o.result THEN o.result[k] ELSE data[k]]
  ELSE data

\* the cache after a refresh that ended with outcome o
swap_cache(o) == IF o.ok THEN o.result ELSE data

\* completing a refresh with outcome o: cache, flag, notifications, waiters
complete_refresh(o) ==
  /\ data' = swap_cache(o)
  /\ last_update_success' = o.ok
  /\ last_fetched' = IF o.ok THEN o.result ELSE last_fetched
  /\ notified' = [v \in Views |-> IF v \in listeners THEN 1 ELSE 0]
  /\ observed' = [v \in Views |->
                    IF v \in waiting THEN Some(<<data', last_update_success'>>)
                    ELSE None]
  /\ waiting' = {}
  /\ log' = ""
  /\ raised' = {}

\* refresh() / request_refresh(): start the fetch, or attach to the one in flight
start_or_join ==
  IF in_flight = 0
  THEN /\ fetch_count < MaxFetches
       /\ in_flight' = 1
       /\ fetch_count' = fetch_count + 1
  ELSE UNCHANGED <<in_flight, fetch_count>>

async_request_refresh(v) ==
  /\ v \notin waiting
  /\ start_or_join
  /\ waiting' = waiting \cup {v}

\* the upstream call returns or raises, and the refresh completes
refresh_finish(o) ==
  /\ in_flight > 0
  /\ in_flight' = in_flight - 1
  /\ complete_refresh(o)
  /\ UNCHANGED <<fetch_count, subVars, cfgVars, readVars>>

\* the host's interval trigger runs refresh(); nothing awaits its result
scheduled_refresh ==
  /\ \E v \in Views : view_phase[v] # "none"
  /\ start_or_join
  /\ Silent
  /\ UNCHANGED <<cacheVars, waiting, subVars, cfgVars, readVars>>

\* ------------------------------------------------------------ sensor views
\* async_setup_entry: the first refresh and, unless it failed (the entry is
\* then not ready and its setup is tried again), the views are built.  The
\* state getter is a coroutine; the model runs it to its end in one step,
\* the lookup it awaits not suspending.
async_setup_entry(o) ==
  /\ \A v \in Views : view_phase[v] = "none"
  /\ in_flight = 0
  /\ fetch_count < MaxFetches
  /\ fetch_count' = fetch_count + 1
  /\ complete_refresh(o)
  /\ view_phase' = IF o.ok THEN [v \in Views |-> "constructed"] ELSE view_phase
  /\ _state' = [v \in Views |-> None]
  /\ UNCHANGED <<in_flight, listeners, on_remove, cfgVars, _timestamp,
                 metric_value>>

\* variant: subscribes without keeping the unsubscribe handle
async_added_to_hass_no_handle(v) ==
  /\ view_phase[v] = "constructed"
  /\ view_phase' = [view_phase EXCEPT ![v] = "added"]
  /\ listeners' = listeners \cup {v}
  /\ Silent
  /\ UNCHANGED <<cacheVars, fetchVars, on_remove, cfgVars, readVars>>

\* the view subscribes and hands the unsubscribe handle to async_on_remove
async_added_to_hass(v) ==
  /\ view_phase[v] = "constructed"
  /\ view_phase' = [view_phase EXCEPT ![v] = "added"]
  /\ listeners' = listeners \cup {v}
  /\ on_remove' = [on_remove EXCEPT ![v] = TRUE]
  /\ Silent
  /\ UNCHANGED <<cacheVars, fetchVars, cfgVars, readVars>>

\* the view is removed: the handles it registered with async_on_remove run
async_remove(v) ==
  /\ view_phase[v] = "added"
  /\ view_phase' = [view_phase EXCEPT ![v] = "removed"]
  /\ listeners' = IF on_remove[v] THEN listeners \ {v} ELSE listeners
  /\ Silent
  /\ UNCHANGED <<cacheVars, fetchVars, on_remove, cfgVars, readVars>>

\* variant: available whatever the coordinator reports
available_always(v) == TRUE

available(v) == last_update_success

\* variant: an absent metric leaves the state as it was
state_try_keeping(v, t) ==
  LET mv == get_metric(MetricOf(v))
  IN  /\ metric_value' = [metric_value EXCEPT ![v] = mv]
      /\ IF mv # None
         THEN /\ _state' = [_state EXCEPT ![v] =
                   Some(state_value(_unit_of_measurement, _unit[v], mv[1]))]
              /\ _timestamp' = [_timestamp EXCEPT ![v] = Some(t)]
              /\ log' = "info"
         ELSE /\ log' = ""
              /\ UNCHANGED <<_state, _timestamp>>
      /\ raised' = {}

\* body of the try block of the state getter, read at wall-clock time t
state_try(v, t) ==
  LET mv == get_metric(MetricOf(v))
  IN  /\ metric_value' = [metric_value EXCEPT ![v] = mv]
      /\ IF mv # None
         THEN /\ _state' = [_state EXCEPT ![v] =
                   Some(state_value(_unit_of_measurement, _unit[v], mv[1]))]
              /\ _timestamp' = [_timestamp EXCEPT ![v] = Some(t)]
              /\ log' = "info"
         ELSE /\ _state' = [_state EXCEPT ![v] = None]
              /\ log' = ""
              /\ UNCHANGED _timestamp
      /\ raised' = {}

\* variant: a lookup that raised clears the state
state_except_clearing(v, kind) ==
  /\ log' = IF kind \in {"ConnectionError", "TimeoutError"} THEN "error" ELSE "critical"
  /\ _state' = [_state EXCEPT ![v] = None]
  /\ raised' = {}
  /\ UNCHANGED <<_timestamp, metric_value>>

\* the except clauses of the state getter, for a lookup that raised kind
state_except(v, kind) ==
  /\ log' = IF kind \in {"ConnectionError", "TimeoutError"} THEN "error" ELSE "critical"
  /\ raised' = {}
  /\ UNCHANGED <<_state, _timestamp, metric_value>>

\* variant: the state getter also asks for a refresh
state_refreshing(v, kind, t) ==
  /\ Alive(v)
  /\ IF kind = "" THEN state_try(v, t) ELSE state_except(v, kind)
  /\ start_or_join
  /\ notified' = [w \in Views |-> 0]
  /\ observed' = [w \in Views |-> None]
  /\ UNCHANGED <<cacheVars, waiting, subVars, cfgVars>>

\* the state getter; kind is "" when the lookup returns, else what it raised
state(v, kind, t) ==
  /\ Alive(v)
  /\ IF kind = "" THEN state_try(v, t) ELSE state_except(v, kind)
  /\ notified' = [w \in Views |-> 0]
  /\ observed' = [w \in Views |-> None]
  /\ UNCHANGED <<cacheVars, fetchVars, subVars, cfgVars>>

\* the attributes getter: reads _timestamp, _category and _label
extra_state_attributes(v) ==
  /\ Alive(v)
  /\ raised' = IF _timestamp[v] = Unset
               THEN {<<"extra_state_attributes", "AttributeError">>}
               ELSE {}
  /\ notified' = [w \in Views |-> 0]
  /\ observed' = [w \in Views |-> None]
  /\ log' = ""
  /\ UNCHANGED <<cacheVars, fetchVars, subVars, cfgVars, readVars>>

\* variant: the view starts an upstream fetch of its own
async_update_data_direct(v) ==
  /\ Alive(v)
  /\ v \notin waiting
  /\ fetch_count < MaxFetches
  /\ in_flight' = in_flight + 1
  /\ fetch_count' = fetch_count + 1
  /\ waiting' = waiting \cup {v}
  /\ Silent
  /\ UNCHANGED <<cacheVars, subVars, cfgVars, readVars>>

\* the view asks the coordinator for a refresh and awaits it
async_update_data(v) ==
  /\ Alive(v)
  /\ async_request_refresh(v)
  /\ Silent
  /\ UNCHANGED <<cacheVars, subVars, cfgVars, readVars>>

\* ------------------------------------------------------------ specification
Init ==
  /\ data = NoData
  /\ last_update_success = TRUE
  /\ last_fetched = NoData
  /\ in_flight = 0
  /\ fetch_count = 0
  /\ waiting = {}
  /\ listeners = {}
  /\ view_phase = [v \in Views |-> "none"]
  /\ on_remove = [v \in Views |-> FALSE]
  /\ _unit = SensorUnits
  /\ _unit_of_measurement \in Prefs
  /\ _state = [v \in Views |-> None]
  /\ _timestamp = [v \in Views |-> Unset]
  /\ metric_value = [v \in Views |-> None]
  /\ notified = [v \in Views |-> 0]
  /\ observed = [v \in Views |-> None]
  /\ log = ""
  /\ raised = {}

SetupEntry == \E o \in Outcomes : async_setup_entry(o)
AddedToHass == \E v \in Views : async_added_to_hass(v)
Remove == \E v \in Views : async_remove(v)
UpdateData == \E v \in Views : async_update_data(v)
RefreshFinish == \E o \in Outcomes : refresh_finish(o)
StateRead == \E v \in Views, k \in FailureKinds \cup {""}, t \in Times : state(v, k, t)
ReadAttributes == \E v \in Views : extra_state_attributes(v)

Next ==
  \/ SetupEntry
  \/ AddedToHass
  \/ Remove
  \/ UpdateData
  \/ scheduled_refresh
  \/ RefreshFinish
  \/ StateRead
  \/ ReadAttributes

Spec == Init /\ [][Next]_vars

\* The unit rule on its own: the state after a successful setup, for every
\* descriptor unit, preference and cached value; the views then read.
InitUnits ==
  /\ data \in {[k \in Keys |-> x] : x \in UnitValues}
  /\ last_update_success = TRUE
  /\ last_fetched = data
  /\ in_flight = 0
  /\ fetch_count = 1
  /\ waiting = {}
  /\ listeners = {}
  /\ view_phase = [v \in Views |-> "constructed"]
  /\ on_remove = [v \in Views |-> FALSE]
  /\ _unit \in [Views -> Units]
  /\ _unit_of_measurement \in Prefs
  /\ _state = [v \in Views |-> None]
  /\ _timestamp = [v \in Views |-> Unset]
  /\ metric_value = [v \in Views |-> None]
  /\ notified = [v \in Views |-> 0]
  /\ observed = [v \in Views |-> None]
  /\ log = ""
  /\ raised = {}

NextUnits == StateRead

SpecUnits == InitUnits /\ [][NextUnits]_vars

\* ------------------------------------------------------------------ claims
\* a step in which a refresh completes
Completes == in_flight' < in_flight

\* C1: while one fetch is in flight no second one starts: at most one upstream
\* fetch is in flight, a refresh cycle issues exactly one upstream call however
\* many requests join it, and the views that waited for it all resume, with
\* the same cache state, the one the refresh produced.
C1_Coalescing ==
  /\ [](in_flight <= 1)
  /\ [][/\ in_flight > 0 => fetch_count' = fetch_count
        /\ (in_flight = 0 /\ in_flight' > 0) => fetch_count' = fetch_count + 1
        /\ Completes => \A v \in waiting : observed'[v] # None]_vars
  /\ [](\A v \in Views : observed[v] # None =>
          /\ observed[v] = Some(<<data, last_update_success>>)
          /\ \A w \in Views : observed[w] # None => observed[w] = observed[v])

C1_Witness ==
  /\ \A v \in Views : observed[v] # None
  /\ fetch_count = 2
  /\ in_flight = 0

\* C2: a refresh that fails leaves the cache as it was, so get_metric() still
\* returns the previous value of every key, and changes nothing else of the
\* coordinator than last_update_success, which becomes false; while it is
\* false every view is unavailable.
C2_FailedRefreshKeepsCache ==
  /\ [][(Completes /\ ~last_update_success') =>
          /\ data' = data
          /\ \A k \in AllKeys : get_metric(k)' = get_metric(k)
          /\ UNCHANGED <<last_fetched, fetch_count, listeners>>
          /\ \A v \in Views : ~available(v)']_vars
  /\ [](~last_update_success => \A v \in Views : ~available(v))

C2_Witness ==
  /\ ~last_update_success
  /\ in_flight = 0
  /\ fetch_count = 2
  /\ get_metric("weight") = Some(70005)
  /\ \A v \in Views : Alive(v) /\ ~available(v)

\* n * 2.2046226218 in thousandths, computed with n split in base 10^3 and the
\* factor in base 10^5: its integer part, and whether it is an integer
ExactPounds(n) ==
  LET n1 == n \div 1000
      n0 == n % 1000
      k1 == 220462
      k0 == 26218
      a  == n1 * k1
      m3 == (n1 * k0) + ((n0 * k0) \div 1000)
      r5 == ((m3 % 100) * 1000) + ((n0 * k0) % 1000)
      x  == ((a % 100) * 1000) + (n0 * k1) + (m3 \div 100)
  IN  [floor |-> (a \div 100) + (x \div 100000),
       whole |-> (x % 100000 = 0) /\ (r5 = 0)]

\* s is a multiple of a hundredth nearest to n * 2.2046226218
NearestPounds(s, n) ==
  LET d == s - ExactPounds(n).floor
  IN  /\ s % 10 = 0
      /\ d <= 5
      /\ (d >= 0 - 4) \/ (d = 0 - 5 /\ ExactPounds(n).whole)

\* s is a multiple of a hundredth nearest to n
NearestHundredth(s, n) == s % 10 = 0 /\ s - n <= 5 /\ n - s <= 5

\* C3: for every native unit and preference, a view that has read a value
\* emits: kilograms shown as pounds, unit pounds and the value times
\* 2.2046226218 to 2 decimals (70.0 gives 154.32); kilograms shown as
\* kilograms, unit kilograms and the value to 2 decimals; anything else, the
\* native unit and the value as read; and no read raises.
C3_UnitReconciliation ==
  /\ raised = {}
  /\ \A v \in Views : metric_value[v] # None =>
       LET n == metric_value[v][1]
           s == _state[v][1]
           u == unit_of_measurement(_unit_of_measurement, _unit[v])
       IN  /\ _state[v] # None
           /\ IF _unit[v] = MASS_KILOGRAMS /\ _unit_of_measurement = MASS_POUNDS
              THEN u = MASS_POUNDS /\ NearestPounds(s, n) /\ (n = 70000 => s = 154320)
              ELSE IF _unit[v] = MASS_KILOGRAMS /\ _unit_of_measurement = MASS_KILOGRAMS
              THEN u = MASS_KILOGRAMS /\ NearestHundredth(s, n)
              ELSE u = _unit[v] /\ s = n

C3_Witness ==
  /\ _unit_of_measurement = MASS_POUNDS
  /\ _unit["v1"] = MASS_KILOGRAMS /\ metric_value["v1"] = Some(70000)
  /\ _state["v1"] = Some(154320)
  /\ _unit["v2"] = "None" /\ metric_value["v2"] = Some(70000)
  /\ _state["v2"] = Some(70000)

\* C4 as claimed: kilograms shown as kilograms, a cached 70.005 is exposed as
\* 70.01.
C4_HalfRoundsUp ==
  \A v \in Views :
    (/\ _unit[v] = MASS_KILOGRAMS /\ _unit_of_measurement = MASS_KILOGRAMS
     /\ metric_value[v] = Some(70005)) => _state[v] = Some(70010)

\* C4 amended: kilograms shown as kilograms, a cached 70.005 is exposed as
\* 70.0: the double nearest 70.005 lies below the half-way point.
C4_HalfRoundsDown ==
  \A v \in Views :
    (/\ _unit[v] = MASS_KILOGRAMS /\ _unit_of_measurement = MASS_KILOGRAMS
     /\ metric_value[v] = Some(70005)) => _state[v] = Some(70000)

C4_Witness ==
  /\ _unit["v1"] = MASS_KILOGRAMS /\ _unit_of_measurement = MASS_KILOGRAMS
  /\ metric_value["v1"] = Some(70005)
  /\ _state["v1"] = Some(70000)

\* a step in which view v, having found a value before, reads and finds its
\* metric absent
FindsAbsent(v) == metric_value[v] # None /\ metric_value'[v] = None

\* C5 as claimed: a view whose read finds its metric absent reports
\* unavailable, whatever last_update_success is.
C5_AbsentIsUnavailable ==
  [][\A v \in Views : FindsAbsent(v) => ~available(v)']_vars

\* C5 amended: a view whose read finds its metric absent has no value (its
\* state is None, its timestamp stays) and is unavailable exactly when
\* last_update_success is false.
C5_AbsentClearsState ==
  [][\A v \in Views : FindsAbsent(v) =>
        /\ _state'[v] = None
        /\ _timestamp'[v] = _timestamp[v]
        /\ available(v)' = last_update_success']_vars

C5_Witness ==
  /\ last_update_success /\ available("v1")
  /\ "weight" \notin DOMAIN data
  /\ _timestamp["v1"] # Unset
  /\ metric_value["v1"] = None
  /\ _state["v1"] = None

\* a step in which a state getter ran to a log statement or changed a view
ReadStep == log' # "" \/ readVars' # readVars

\* C6: get_metric() of a key the last successful fetch did not return, or of
\* any key before the first fetch, is absent; and a state read leaves the
\* upstream fetches alone: none is started by it.
C6_LookupNeverFetches ==
  /\ [](\A k \in AllKeys : k \notin DOMAIN last_fetched => get_metric(k) = None)
  /\ [](fetch_count = 0 => \A k \in AllKeys : get_metric(k) = None)
  /\ [][ReadStep => fetch_count' = fetch_count /\ in_flight' = in_flight]_vars

C6_Witness ==
  /\ log = "info"
  /\ fetch_count = 1
  /\ "weight" \in DOMAIN data
  /\ get_metric("bodyfat") = None
  /\ metric_value["v2"] = None /\ metric_value["v1"] # None

\* C7: a refresh that completes, failed or not, notifies each view that is
\* added and not removed exactly once, and no other view.
C7_NotifiesSubscribers ==
  [][Completes => \A v \in Views :
        notified'[v] = IF view_phase[v] = "added" THEN 1 ELSE 0]_vars

C7_Witness ==
  /\ view_phase["v1"] = "removed" /\ notified["v1"] = 0
  /\ view_phase["v2"] = "added" /\ notified["v2"] = 1
  /\ ~last_update_success

\* C8: a state read whose lookup raises, of any kind, logs and leaves the
\* view's value and timestamp as they were; no fault leaves the state getter
\* or a refresh.
C8_FaultsContained ==
  /\ [][log' \in {"error", "critical"} =>
          /\ _state' = _state
          /\ _timestamp' = _timestamp
          /\ raised' = {}]_vars
  /\ [](\A f \in raised : f[1] = "extra_state_attributes")

C8_Witness ==
  /\ log = "critical"
  /\ _state["v1"] # None /\ _timestamp["v1"] = Some(0)
  /\ ~last_update_success

\* C9: the cache is always, as a whole, what the last successful upstream
\* call returned, also while a fetch is in flight: keys that call did not
\* return are gone.
C9_AtomicSnapshot ==
  /\ data = last_fetched
  /\ \A v \in Views : observed[v] # None => observed[v][1][1] = last_fetched

C9_Witness ==
  /\ in_flight = 0 /\ fetch_count = 2 /\ last_update_success
  /\ DOMAIN data = {"bodyfat"}
  /\ _state["v1"] # None
  /\ observed["v1"] # None

\* C10 as claimed: reading a view's state attributes succeeds in every state
\* after its construction.
C10_AttributesReadable ==
  <<"extra_state_attributes", "AttributeError">> \notin raised

====
